---- MODULE Spec2Model ----
(***************************************************************************)
(* A state-machine model of ccommon's debug module (src/src/cc_debug.c):   *)
(* the process-wide debug logger (target handle, level, init flag), its    *)
(* setup and teardown, the level-filtered _log and _log_hexdump writers,   *)
(* and the two signal handlers installed by debug_setup.                   *)
(*                                                                         *)
(* Text is modelled as sequences of character codes, so that truncation,   *)
(* newlines and buffer indices are computed and not assumed.               *)
(***************************************************************************)
EXTENDS Integers, Sequences, FiniteSets, TLC

VARIABLES
    logger,      \* dlog->logger: 0 is NULL, h > 0 is the h-th target created
    level,       \* dlog->level
    debug_init,  \* the static flag debug_init
    opened,      \* number of targets log_create has returned so far
    closed,      \* closed[h]: how many times target h was closed
    sigact,      \* signal dispositions: signo -> [handler, flags, mask]
    pending,     \* signals raised and not yet delivered
    proc,        \* "running" or "killed" (terminated by a signal)
    ntrace,      \* entries of the crash handler, each one stack-trace dump
    errno,       \* the C errno
    last,        \* the last operation: its name, arguments and what it saw
    writes,      \* the _log_write calls of the last operation
    nread,       \* input bytes the last operation read
    maxidx,      \* highest buffer index the last operation stored to (-1: none)
    errlog,      \* the log_stderr lines of the last operation
    destroys,    \* the handles the last operation passed to log_destroy
    frames       \* the frame lines of the last stack-trace dump

vars == <<logger, level, debug_init, opened, closed, sigact, pending, proc,
          ntrace, errno, last, writes, nread, maxidx, errlog, destroys,
          frames>>

-----------------------------------------------------------------------------
(* Bounds of the model. *)

\* Capacity of a log record buffer. The program's value is set in cc_log.h;
\* the model uses a small capacity so that truncation happens with short text.
LOG_MAX_LEN == 24

\* How many targets log_create may hand out in one run.
MaxTargets == 3

\* How many times the crash handler may be entered before the model stops
\* counting.
MaxTrace == 3

-----------------------------------------------------------------------------
(* Program constants. *)

BACKTRACE_DEPTH == 64

\* The null pointer, as the value of dlog->logger.
NULL == 0

\* Character codes used by the format strings.
NL == 10
SP == 32
DOT == 46
BAR == 124

\* The eight labels "ALWAYS" .. "VVERB", indexed by level + 1.
level_str ==
    << <<65, 76, 87, 65, 89, 83>>,
       <<67, 82, 73, 84>>,
       <<69, 82, 82, 79, 82>>,
       <<87, 65, 82, 78>>,
       <<73, 78, 70, 79>>,
       <<68, 69, 66, 85, 71>>,
       <<86, 69, 82, 66>>,
       <<86, 86, 69, 82, 66>> >>

Signals == {"SIGSEGV", "SIGTTIN"}

-----------------------------------------------------------------------------
(* Helpers over integers and text. *)

Min(a, b) == IF a < b THEN a ELSE b

Max(a, b) == IF a > b THEN a ELSE b

Take(s, n) == SubSeq(s, 1, Min(Len(s), Max(n, 0)))

RECURSIVE Rep(_, _)
Rep(c, n) == IF n <= 0 THEN <<>> ELSE <<c>> \o Rep(c, n - 1)

\* One lowercase hexadecimal digit.
HexDigit(d) == IF d < 10 THEN 48 + d ELSE 87 + d

\* printf("%0<w>x", n) for n >= 0 that fits w digits.
RECURSIVE HexN(_, _)
HexN(n, w) == IF w = 0 THEN <<>> ELSE HexN(n \div 16, w - 1) \o <<HexDigit(n % 16)>>

\* printf("%d", n) for n >= 0.
RECURSIVE Dec(_)
Dec(n) == IF n < 10 THEN <<48 + n>> ELSE Dec(n \div 10) \o <<48 + (n % 10)>>

\* isprint() in the C locale.
IsPrint(c) == c \in 32..126

\* cc_scnprintf(buf + len, size, ...): stores the text truncated to size - 1
\* characters (a NUL follows them) and returns how many it stored.
Scnprintf(size, text) == Take(text, size - 1)

-----------------------------------------------------------------------------
(* The inputs of the operations. *)

\* Levels passed to debug_setup and to the writers: the eight severities and
\* one int on either side of them.
Levels == -1..8

MsgBody(n, k) == [i \in 1..n |-> IF i = k THEN NL ELSE 109]

\* Message bodies: of every length up to a little beyond the buffer, without
\* a newline, with one in front, and with one at the end.
Msgs == {MsgBody(n, k) : n \in 0..(LOG_MAX_LEN + 1), k \in {0, 1}}
        \cup {MsgBody(n, n) : n \in 1..(LOG_MAX_LEN + 1)}

SomeMsgs == {MsgBody(2, 0), MsgBody(LOG_MAX_LEN, 0)}

\* File names "a.c" and "long_name_of_file.c".
Files == {<<97, 46, 99>>,
          <<108, 111, 110, 103, 95, 110, 97, 109, 101, 95, 111, 102, 95, 102, 105,
            108, 101, 46, 99>>}

Lines == {7, 120}

\* The levels the whole-module specification passes around.
SomeLevels == {-1, 0, 3, 7, 8}

\* errno as left by the formatting and the write inside a writer.
Mids == {"0", "EIO"}

\* How a debug_setup call goes: log_create fails, or it succeeds and the
\* first or the second signal_override fails, or all three succeed.
SetupOutcomes ==
    {[open |-> FALSE, segv |-> TRUE, ttin |-> TRUE],
     [open |-> TRUE, segv |-> FALSE, ttin |-> TRUE],
     [open |-> TRUE, segv |-> TRUE, ttin |-> FALSE],
     [open |-> TRUE, segv |-> TRUE, ttin |-> TRUE]}

\* Input buffers of the hexdump: n equal bytes, with datalen = n; and an
\* empty buffer with a negative datalen.
Bytes == {0, 32, 65}

DataLens == {0, 1, 16, 17, 32, 33, 48}

HexInputs ==
    {[data |-> Rep(b, n), datalen |-> n] : b \in Bytes, n \in DataLens}
    \cup {[data |-> <<>>, datalen |-> -1]}

SomeHexInputs ==
    {[data |-> Rep(65, n), datalen |-> n] : n \in {0, 1, 17}}
    \cup {[data |-> <<>>, datalen |-> -1]}

\* The bytes a read beyond the caller's buffer may find.
OobBytes == {0, 65}

\* How deep the call stack is when the dump is taken.
StackDepths == {0, 2, 3, 5, 64, 70}

\* backtrace(stack, BACKTRACE_DEPTH) (line 59): at most BACKTRACE_DEPTH
\* return addresses are captured.
Backtrace(depth) == Min(depth, BACKTRACE_DEPTH)

StackSizes == {Backtrace(d) : d \in StackDepths}

\* The panic argument of debug_assert, an int.
Panics == {0, 1, 2}

-----------------------------------------------------------------------------
(* The collaborators of the debug module: the log target (cc_log), the     *)
(* signal table (cc_signal) and the kernel's delivery of signals.          *)

\* log_create(file, nbuf): a fresh target, or NULL when the open fails.
LogCreate(n, openOk) == IF openOk THEN n + 1 ELSE NULL

\* log_destroy(&l): closes the target *l (and then sets *l to NULL).
LogDestroy(cl, h) == IF h \in DOMAIN cl THEN [cl EXCEPT ![h] = @ + 1] ELSE cl

\* signal_override(signo, info, flags, mask, handler): on success the handler
\* is installed with sigaction under these flags; on failure nothing changes.
SignalOverride(sa, signo, flags, mask, handler, ok) ==
    IF ok THEN [sa EXCEPT ![signo] = [handler |-> handler, flags |-> flags, mask |-> mask]]
    ELSE sa

SigDfl == [handler |-> "SIG_DFL", flags |-> {}, mask |-> {}]

\* The targets that are open: created and not closed.
OpenTargets == {h \in 1..opened : closed[h] = 0}

\* Normal code runs only while the process lives and no signal awaits delivery.
Running == proc = "running" /\ pending = {}

\* What an operation records of itself and of the state it was called in.
Op(op, lvl, rc, arg) ==
    [op |-> op, lvl |-> lvl, rc |-> rc, arg |-> arg,
     logger0 |-> logger, level0 |-> level, init0 |-> debug_init,
     errno0 |-> errno, sig0 |-> sigact]

-----------------------------------------------------------------------------
(* debug_setup and debug_teardown. *)

\* A debug_setup that forgets the logger it finds.
SetupKeepsPrior(lg) == FALSE

\* debug_setup destroys the logger it finds (line 110).
SetupDestroysPrior(lg) == lg # NULL

\* The flags and the mask debug_setup passes to signal_override.
SetupSigFlags == {}

SetupSigMask == {}

DebugSetup(log_level, openOk, segvOk, ttinOk) ==
    LET prior == SetupDestroysPrior(logger)
        created == LogCreate(opened, openOk)
        sa1 == SignalOverride(sigact, "SIGSEGV", SetupSigFlags, SetupSigMask,
                              "_stacktrace", segvOk)
        sa2 == SignalOverride(sa1, "SIGTTIN", SetupSigFlags, SetupSigMask,
                              "_logrotate", ttinOk)
        warn == <<"Set up">>
                \o (IF debug_init THEN <<"already been setup">> ELSE <<>>)
                \o (IF prior THEN <<"logger already exists">> ELSE <<>>)
    IN  /\ Running
        /\ openOk => opened < MaxTargets
        /\ destroys' = IF prior THEN <<logger>> ELSE <<>>
        /\ closed' = IF prior THEN LogDestroy(closed, logger) ELSE closed
        /\ logger' = created
        /\ opened' = IF openOk THEN opened + 1 ELSE opened
        /\ IF created = NULL
           THEN /\ errlog' = warn \o <<"Could not create logger!">>
                /\ last' = Op("setup", log_level, "CC_ERROR",
                              [open |-> openOk, segv |-> segvOk, ttin |-> ttinOk])
                /\ errno' = "ENOENT"
                /\ UNCHANGED <<level, sigact, debug_init>>
           ELSE /\ errlog' = warn
                /\ level' = log_level
                /\ IF ~segvOk
                   THEN /\ last' = Op("setup", log_level, "CC_ERROR",
                                 [open |-> openOk, segv |-> segvOk, ttin |-> ttinOk])
                        /\ errno' = "EINVAL"
                        /\ UNCHANGED <<sigact, debug_init>>
                   ELSE IF ~ttinOk
                   THEN /\ last' = Op("setup", log_level, "CC_ERROR",
                                 [open |-> openOk, segv |-> segvOk, ttin |-> ttinOk])
                        /\ errno' = "EINVAL"
                        /\ sigact' = sa1
                        /\ UNCHANGED debug_init
                   ELSE /\ last' = Op("setup", log_level, "CC_OK",
                                 [open |-> openOk, segv |-> segvOk, ttin |-> ttinOk])
                        /\ sigact' = sa2
                        /\ debug_init' = TRUE
                        /\ UNCHANGED errno
        /\ writes' = <<>>
        /\ nread' = 0
        /\ maxidx' = -1
        /\ UNCHANGED <<pending, proc, ntrace, frames>>

\* A debug_teardown that destroys without looking.
TeardownAlwaysDestroys(lg) == TRUE

\* debug_teardown destroys the logger only when there is one (line 147).
TeardownDestroys(lg) == lg # NULL

DebugTeardown ==
    LET has == TeardownDestroys(logger)
    IN  /\ Running
        /\ errlog' = <<"Tear down">>
                     \o (IF ~debug_init THEN <<"was never setup">> ELSE <<>>)
        /\ destroys' = IF has THEN <<logger>> ELSE <<>>
        /\ closed' = IF has THEN LogDestroy(closed, logger) ELSE closed
        /\ logger' = IF has THEN NULL ELSE logger
        /\ debug_init' = FALSE
        /\ last' = Op("teardown", 0, "void", <<>>)
        /\ writes' = <<>>
        /\ nread' = 0
        /\ maxidx' = -1
        /\ UNCHANGED <<level, opened, sigact, pending, proc, ntrace, errno, frames>>

-----------------------------------------------------------------------------
(* _log: one record "[<time>][<LEVEL>] <file>:<line> <message>\n". *)

\* An early return that also drops the level equal to the logger's.
LogSkipAtLevel(lg, lv, lvl) == lg = NULL \/ lv <= lvl

\* The early return of _log (line 163): no target, or the level is beyond
\* the logger's level.
LogSkip(lg, lv, lvl) == lg = NULL \/ lv < lvl

\* A capacity one beyond the buffer.
LogSizeOver == LOG_MAX_LEN + 1

\* size, the capacity _log formats into (line 169).
LogSize == LOG_MAX_LEN

\* asctime(localtime(&t)): a time text that ends with a newline. The model's
\* clock text is short; like the C one it is fixed-width and newline-ended.
Asctime(t) == <<84>> \o Dec(t) \o <<NL>>

\* level_str[level]: the label of a level in 0..7. Outside 0..7 the read is
\* outside the array: the build may fault on it or format whatever it finds.
LabelOutcomes(lvl) ==
    IF lvl \in 0..7
    THEN {[fault |-> FALSE, text |-> level_str[lvl + 1]]}
    ELSE {[fault |-> TRUE, text |-> <<>>]}
         \cup {[fault |-> FALSE, text |-> Rep(63, n)] : n \in {0, LOG_MAX_LEN + 1}}

\* The arguments of the first cc_scnprintf of _log (lines 175-176), formatted.
LogHeader(timestr, label, file, line) ==
    <<91>> \o SubSeq(timestr, 1, Len(timestr) - 1) \o <<93, 91>> \o label
    \o <<93, SP>> \o file \o <<58>> \o Dec(line) \o <<SP>>

\* Lines 168-182: the header, the message, the newline. maxidx is the highest
\* index of buf that was stored to.
LogRender(timestr, label, file, line, msg) ==
    LET size == LogSize
        b1 == Scnprintf(size - 0, LogHeader(timestr, label, file, line))
        b2 == b1 \o Scnprintf(size - Len(b1), msg)
        b3 == b2 \o <<NL>>
    IN  [buf |-> b3, len |-> Len(b3), maxidx |-> Len(b2)]

\* Every record _log can be asked for here. (@@ makes TLC tabulate the
\* function once instead of rendering at each application.)
LogRendered ==
    [c \in [t : {0}, label : {level_str[l + 1] : l \in 0..7}
                              \cup {Rep(63, n) : n \in {0, LOG_MAX_LEN + 1}},
            file : Files, line : Lines, msg : Msgs] |->
        LogRender(Asctime(c.t), c.label, c.file, c.line, c.msg)] @@ <<>>

\* errno left as formatting and the write set it.
ErrnoLeft(errno_save, mid) == mid

\* errno on return from a call that saved it on entry (lines 186 and 246).
ErrnoRestore(errno_save, mid) == errno_save

Log(lvl, file, line, msg, t, lab, mid) ==
    LET r == LogRendered[[t |-> t, label |-> lab.text, file |-> file, line |-> line,
                          msg |-> msg]]
        arg == [file |-> file, line |-> line, msg |-> msg, mid |-> mid]
    IN  /\ Running
        /\ IF LogSkip(logger, level, lvl)
           THEN /\ last' = Op("log", lvl, "skipped", arg)
                /\ writes' = <<>>
                /\ maxidx' = -1
                /\ UNCHANGED <<errno, pending>>
           ELSE IF lab.fault
           THEN /\ last' = Op("log", lvl, "fault", arg)
                /\ writes' = <<>>
                /\ maxidx' = -1
                /\ pending' = {"SIGSEGV"}
                /\ UNCHANGED errno
           ELSE /\ last' = Op("log", lvl, "written", arg)
                /\ writes' = <<[target |-> logger, buf |-> r.buf, len |-> r.len]>>
                /\ maxidx' = r.maxidx
                /\ errno' = ErrnoRestore(errno, mid)
                /\ UNCHANGED pending
        /\ nread' = 0
        /\ errlog' = <<>>
        /\ destroys' = <<>>
        /\ UNCHANGED <<logger, level, debug_init, opened, closed, sigact, proc, ntrace,
                       frames>>

-----------------------------------------------------------------------------
(* _log_hexdump: rows "OFFSET  H0 .. H7  H8 .. H15  |ASCII|\n". *)

\* An early return that does not look at the target.
HexSkipLevelOnly(lg, lv, lvl) == lv < lvl

\* The early return of _log_hexdump (line 200).
HexSkip(lg, lv, lvl) == lg = NULL \/ lv < lvl

\* buf, the output buffer of _log_hexdump (line 197).
HexBufLen == 8 * LOG_MAX_LEN

\* A capacity beyond the buffer.
HexSizeOver == 8 * LOG_MAX_LEN + 2

\* size, the capacity _log_hexdump formats into (line 208).
HexSize == 8 * LOG_MAX_LEN

\* *data at 1-based position i: a byte of the caller's buffer, or, beyond
\* the buffer, whatever lies there.
ByteAt(data, i, oob) == IF i \in 1..Len(data) THEN data[i] ELSE oob

\* A run of cc_scnprintf calls, each appending at buf + len with size - len.
RECURSIVE Emit(_, _, _)
Emit(buf, pieces, size) ==
    IF pieces = <<>> THEN buf
    ELSE Emit(buf \o Scnprintf(size - Len(buf), Head(pieces)), Tail(pieces), size)

\* One space after every hex column.
HexSepSingle(i) == <<SP>>

\* The separator after hex column i (0-based): two spaces after the eighth.
HexSep(i) == IF i = 7 THEN <<SP, SP>> ELSE <<SP>>

\* Row loops that stop one byte early.
RowBytesShort(datalen) == IF datalen < 0 THEN 16 ELSE Min(15, datalen)

\* How many bytes the row loops consume (lines 220 and 235): until datalen
\* reaches 0 or 16 are done. A negative datalen never reaches 0.
RowBytes(datalen) == IF datalen < 0 THEN 16 ELSE Min(16, datalen)

\* The cc_scnprintf calls of one row (lines 215-239), in order.
HexRowPieces(off, bytes) ==
    LET n == Len(bytes)
    IN  <<HexN(off, 8) \o <<SP, SP>>>>
        \o [i \in 1..n |-> HexN(bytes[i], 2) \o HexSep(i - 1)]
        \o [i \in 1..(16 - n) |-> <<SP, SP>> \o HexSep(n + i - 1)]
        \o << <<SP, SP, BAR>> >>
        \o [i \in 1..n |-> <<IF IsPrint(bytes[i]) THEN bytes[i] ELSE DOT>>]
        \o << <<BAR, NL>> >>

\* The while loop of _log_hexdump (lines 210-242). pos counts the input
\* bytes consumed so far, rows the rows begun.
RECURSIVE HexLoop(_, _, _, _, _, _, _)
HexLoop(buf, off, pos, datalen, rows, data, oob) ==
    IF datalen # 0 /\ Len(buf) < HexSize - 1
    THEN LET n == RowBytes(datalen)
             bytes == [i \in 1..n |-> ByteAt(data, pos + i, oob)]
         IN  HexLoop(Emit(buf, HexRowPieces(off, bytes), HexSize),
                     off + 16, pos + n, datalen - n, rows + 1, data, oob)
    ELSE [buf |-> buf, len |-> Len(buf), nread |-> pos, rows |-> rows,
          maxidx |-> IF rows = 0 THEN -1 ELSE Len(buf)]

HexRender(data, datalen, oob) == HexLoop(<<>>, 0, 0, datalen, 0, data, oob)

\* Every dump _log_hexdump can be asked for here, tabulated like LogRendered.
HexRendered ==
    [c \in [in : HexInputs, oob : OobBytes] |->
        HexRender(c.in.data, c.in.datalen, c.oob)] @@ <<>>

\* Reading beyond the caller's buffer may fault or find any byte.
ReadOutcomes(data, datalen) ==
    IF datalen \in 0..Len(data)
    THEN {[fault |-> FALSE, byte |-> 0]}
    ELSE {[fault |-> TRUE, byte |-> 0]} \cup {[fault |-> FALSE, byte |-> b] : b \in OobBytes}

LogHexdump(lvl, data, datalen, rd, mid) ==
    LET r == HexRendered[[in |-> [data |-> data, datalen |-> datalen], oob |-> rd.byte]]
        arg == [data |-> data, datalen |-> datalen, mid |-> mid]
    IN  /\ Running
        /\ IF HexSkip(logger, level, lvl)
           THEN /\ last' = Op("hexdump", lvl, "skipped", arg)
                /\ writes' = <<>>
                /\ nread' = 0
                /\ maxidx' = -1
                /\ UNCHANGED <<errno, pending>>
           ELSE IF rd.fault
           THEN /\ last' = Op("hexdump", lvl, "fault", arg)
                /\ writes' = <<>>
                /\ nread' = Len(data) + 1
                /\ maxidx' = -1
                /\ pending' = {"SIGSEGV"}
                /\ UNCHANGED errno
           ELSE /\ last' = Op("hexdump", lvl, "written", arg)
                /\ writes' = <<[target |-> logger, buf |-> r.buf, len |-> r.len]>>
                /\ nread' = r.nread
                /\ maxidx' = r.maxidx
                /\ errno' = ErrnoRestore(errno, mid)
                /\ UNCHANGED pending
        /\ errlog' = <<>>
        /\ destroys' = <<>>
        /\ UNCHANGED <<logger, level, debug_init, opened, closed, sigact, proc, ntrace,
                       frames>>

-----------------------------------------------------------------------------
(* Signals: the crash handler _stacktrace and the rotate handler           *)
(* _logrotate, and the kernel delivering SIGSEGV and SIGTTIN to them.      *)

\* debug_stacktrace(skip_count) in a build with CC_BACKTRACE: the frame
\* lines "[j] symbols[i]" it prints, for a capture of `size` addresses.
\* The frame loop without skip_count++.
StacktraceFramesNoIncr(skip_count, size, symOk) ==
    IF ~symOk THEN <<>>
    ELSE [k \in 1..Max(0, size - skip_count) |->
             [j |-> k - 1, i |-> skip_count + (k - 1)]]

StacktraceFrames(skip_count, size, symOk) ==
    IF ~symOk THEN <<>>
    ELSE [k \in 1..Max(0, size - (skip_count + 1)) |->
             [j |-> k - 1, i |-> skip_count + 1 + (k - 1)]]

StacktraceNotes(symOk) ==
    <<"printing stracktrace">>
    \o (IF symOk THEN <<>> ELSE <<"Could not print backtrace; no symbols">>)

\* raise(signo) inside the handler of signo: the signal is blocked while its
\* handler runs (no SA_NODEFER), so it stays pending until the handler
\* returns.
Raise(pend, signo) == pend \cup {signo}

\* The disposition of signo once its handler has been entered: SA_RESETHAND
\* resets it to the default, otherwise the handler stays installed.
AfterEntry(sa, signo) ==
    IF "SA_RESETHAND" \in sa[signo].flags THEN [sa EXCEPT ![signo] = SigDfl] ELSE sa

\* _stacktrace(signo) (lines 86-91): one dump with skip 2, then raise.
Stacktrace(signo, size, symOk) ==
    /\ ntrace' = ntrace + 1
    /\ frames' = StacktraceFrames(2, size, symOk)
    /\ errlog' = StacktraceNotes(symOk)
    /\ pending' = Raise(pending \ {signo}, signo)

\* A fault in the program outside this module raises SIGSEGV.
Segfault ==
    /\ Running
    /\ pending' = {"SIGSEGV"}
    /\ last' = Op("segfault", 0, "void", <<>>)
    /\ writes' = <<>>
    /\ nread' = 0
    /\ maxidx' = -1
    /\ errlog' = <<>>
    /\ destroys' = <<>>
    /\ UNCHANGED <<logger, level, debug_init, opened, closed, sigact, proc, ntrace,
                   errno, frames>>

\* The kernel delivers a pending SIGSEGV: to the installed handler, or by
\* the default disposition, which terminates the process.
DeliverSegv(size, symOk) ==
    /\ proc = "running"
    /\ "SIGSEGV" \in pending
    /\ IF sigact["SIGSEGV"].handler = "_stacktrace"
       THEN /\ ntrace < MaxTrace
            /\ Stacktrace("SIGSEGV", size, symOk)
            /\ sigact' = AfterEntry(sigact, "SIGSEGV")
            /\ last' = Op("crash handler", 0, "void",
                          [size |-> size, symOk |-> symOk])
            /\ UNCHANGED proc
       ELSE /\ proc' = "killed"
            /\ pending' = pending \ {"SIGSEGV"}
            /\ last' = Op("killed", 0, "void", <<>>)
            /\ frames' = <<>>
            /\ errlog' = <<>>
            /\ UNCHANGED <<sigact, ntrace>>
    /\ writes' = <<>>
    /\ nread' = 0
    /\ maxidx' = -1
    /\ destroys' = <<>>
    /\ UNCHANGED <<logger, level, debug_init, opened, closed, errno>>

\* An assertion that panics only when panic is 1.
PanicOnlyOne(panic) == panic = 1

\* if (panic) (line 80).
PanicTaken(panic) == panic # 0

AssertMsg == "assert '%s' failed @ (%s, %d)"

\* debug_assert(cond, file, line, panic) (lines 76-84): one line on stderr;
\* with panic, debug_stacktrace(1) and abort(), which ends the process.
DebugAssert(panic, size, symOk) ==
    /\ Running
    /\ IF PanicTaken(panic)
       THEN /\ errlog' = <<AssertMsg>> \o StacktraceNotes(symOk)
            /\ frames' = StacktraceFrames(1, size, symOk)
            /\ proc' = "aborted"
            /\ last' = Op("assert", 0, "aborted",
                          [panic |-> panic, size |-> size, symOk |-> symOk])
       ELSE /\ errlog' = <<AssertMsg>>
            /\ frames' = <<>>
            /\ proc' = proc
            /\ last' = Op("assert", 0, "void",
                          [panic |-> panic, size |-> 0, symOk |-> TRUE])
    /\ writes' = <<>>
    /\ nread' = 0
    /\ maxidx' = -1
    /\ destroys' = <<>>
    /\ UNCHANGED <<logger, level, debug_init, opened, closed, sigact, pending,
                   ntrace, errno>>

\* SIGTTIN delivered to _logrotate (lines 94-98): log_reopen(dlog->logger).
Logrotate ==
    /\ Running
    /\ sigact["SIGTTIN"].handler = "_logrotate"
    /\ last' = Op("rotate", 0, "void", [reopen |-> logger])
    /\ writes' = <<>>
    /\ nread' = 0
    /\ maxidx' = -1
    /\ errlog' = <<>>
    /\ destroys' = <<>>
    /\ UNCHANGED <<logger, level, debug_init, opened, closed, sigact, pending, proc,
                   ntrace, errno, frames>>

-----------------------------------------------------------------------------
(* The specification of the whole module. *)

Init ==
    /\ logger = NULL
    /\ level = 0
    /\ debug_init = FALSE
    /\ opened = 0
    /\ closed = [h \in 1..MaxTargets |-> 0]
    /\ sigact = [s \in Signals |-> SigDfl]
    /\ pending = {}
    /\ proc = "running"
    /\ ntrace = 0
    /\ errno = "0"
    /\ writes = <<>>
    /\ nread = 0
    /\ maxidx = -1
    /\ errlog = <<>>
    /\ destroys = <<>>
    /\ frames = <<>>
    /\ last = Op("init", 0, "void", <<>>)

Next ==
    \/ \E lv \in SomeLevels, o \in SetupOutcomes :
          DebugSetup(lv, o.open, o.segv, o.ttin)
    \/ DebugTeardown
    \/ \E lvl \in SomeLevels, msg \in SomeMsgs :
          \E lab \in LabelOutcomes(lvl) :
             Log(lvl, <<97, 46, 99>>, 7, msg, 0, lab, "EIO")
    \/ \E lvl \in SomeLevels, in \in SomeHexInputs :
          \E rd \in ReadOutcomes(in.data, in.datalen) :
             LogHexdump(lvl, in.data, in.datalen, rd, "EIO")
    \/ Segfault
    \/ \E size \in StackSizes, symOk \in BOOLEAN : DeliverSegv(size, symOk)
    \/ Logrotate
    \/ \E panic \in Panics, size \in StackSizes, symOk \in BOOLEAN :
          DebugAssert(panic, size, symOk)

Spec == Init /\ [][Next]_vars

-----------------------------------------------------------------------------
(* The specification of the two writers alone: from the state a fully      *)
(* successful first debug_setup(lv, ..) leaves, for every level lv, one    *)
(* _log or _log_hexdump call with any of the inputs.                       *)

InitFmt ==
    /\ logger = 1
    /\ level \in Levels
    /\ debug_init = TRUE
    /\ opened = 1
    /\ closed = [h \in 1..MaxTargets |-> 0]
    /\ sigact = [s \in Signals |->
                   [handler |-> IF s = "SIGSEGV" THEN "_stacktrace" ELSE "_logrotate",
                    flags |-> SetupSigFlags, mask |-> SetupSigMask]]
    /\ pending = {}
    /\ proc = "running"
    /\ ntrace = 0
    /\ errno = "0"
    /\ writes = <<>>
    /\ nread = 0
    /\ maxidx = -1
    /\ errlog = <<"Set up">>
    /\ destroys = <<>>
    /\ frames = <<>>
    /\ last = [op |-> "setup", lvl |-> level, rc |-> "CC_OK",
               arg |-> [open |-> TRUE, segv |-> TRUE, ttin |-> TRUE],
               logger0 |-> NULL, level0 |-> 0, init0 |-> FALSE,
               errno0 |-> "0", sig0 |-> [s \in Signals |-> SigDfl]]

NextFmt ==
    /\ last.op = "setup"
    /\ \/ \E lvl \in Levels, file \in Files, line \in Lines, msg \in Msgs, mid \in Mids :
             \E lab \in LabelOutcomes(lvl) :
                Log(lvl, file, line, msg, 0, lab, mid)
       \/ \E lvl \in Levels, in \in HexInputs, mid \in Mids :
             \E rd \in ReadOutcomes(in.data, in.datalen) :
                LogHexdump(lvl, in.data, in.datalen, rd, mid)

SpecFmt == InitFmt /\ [][NextFmt]_vars

-----------------------------------------------------------------------------
(* The properties. `last` holds the operation that led to the state and     *)
(* the logger it was called on; writes, nread, maxidx, errlog and destroys  *)
(* hold what that operation did.                                            *)

IsWriter == last.op \in {"log", "hexdump"}

Emitted == Len(writes) = 1 /\ writes[1].target = last.logger0

Suppressed == writes = <<>>

\* The call came back to its caller: it did not fault on a read outside
\* level_str or outside the caller's data.
Returned == last.rc # "fault"

LoggerUntouched ==
    /\ logger = last.logger0
    /\ level = last.level0
    /\ debug_init = last.init0

\* C1 as stated: with a target and a threshold S1 in ALWAYS..VVERB, a _log or
\* _log_hexdump call at any severity S2 with S1 <= S2 is suppressed, and a
\* call at S1 itself is emitted.
C1_AsStated ==
    (IsWriter /\ last.logger0 # NULL /\ last.level0 \in 0..7 /\ last.lvl \in 0..7) =>
        /\ (last.level0 <= last.lvl /\ Returned) => Suppressed
        /\ (last.level0 = last.lvl /\ Returned) => Emitted

\* C1, amended: with a target and a threshold S1 in ALWAYS..VVERB, a _log or
\* _log_hexdump call at a severity S2 strictly less severe than S1 (S1 < S2)
\* is suppressed, and a call at S1 itself passes the filter and, when it
\* returns, has made its write to the target.
C1_ThresholdFilter ==
    (IsWriter /\ last.logger0 # NULL /\ last.level0 \in 0..7 /\ last.lvl \in 0..7) =>
        /\ last.level0 < last.lvl => (last.rc = "skipped" /\ Suppressed)
        /\ last.level0 = last.lvl => last.rc # "skipped"
        /\ (last.level0 = last.lvl /\ Returned) => Emitted

\* A _log call at WARN on a logger whose threshold is WARN, emitted.
C1_Witness ==
    /\ last.op = "log"
    /\ last.logger0 # NULL
    /\ last.level0 = 3
    /\ last.lvl = 3
    /\ Emitted

\* C2: with a target, a _log or _log_hexdump call at ALWAYS (level 0) is
\* emitted whatever threshold debug_setup stored, negative ones included.
C2_AlwaysEmitted ==
    (IsWriter /\ last.logger0 # NULL /\ last.lvl = 0 /\ Returned) => Emitted

\* C3: on a logger without a target, a _log or _log_hexdump call returns at
\* once: it writes nothing, reads no input byte, stores to no buffer, raises
\* no signal and leaves the logger and errno as they were.
C3_InactiveIsNoOp ==
    (IsWriter /\ last.logger0 = NULL) =>
        /\ last.rc = "skipped"
        /\ Suppressed
        /\ nread = 0
        /\ maxidx = -1
        /\ pending = {}
        /\ LoggerUntouched
        /\ errno = last.errno0

\* A hexdump of 17 bytes at ALWAYS on a logger whose target was torn down or
\* failed to open.
C3_Witness ==
    /\ last.op = "hexdump"
    /\ last.logger0 = NULL
    /\ opened >= 1
    /\ last.lvl = 0
    /\ last.arg.datalen = 17
    /\ Suppressed

\* C4: once debug_setup has installed the crash handler, a SIGSEGV enters it
\* once, for one stack-trace dump, and the re-raised signal terminates the
\* process: the handler is never entered a second time.
C4_CrashHandlerEnteredOnce ==
    (debug_init /\ sigact["SIGSEGV"].handler = "_stacktrace") => ntrace <= 1

\* C5: a debug_setup whose log_create fails returns an error and leaves the
\* logger inactive, from any prior state: no target, the init flag false, no
\* signal handler installed by the call.
C5_OpenFailureLeavesInactive ==
    (last.op = "setup" /\ ~last.arg.open) =>
        /\ last.rc = "CC_ERROR"
        /\ logger = NULL
        /\ debug_init = FALSE
        /\ sigact = last.sig0

\* C6: a debug_setup in which the installation of either signal handler
\* fails returns an error and leaves the logger inactive: no target, the
\* init flag false.
C6_SignalFailureLeavesInactive ==
    (last.op = "setup" /\ last.arg.open /\ (~last.arg.segv \/ ~last.arg.ttin)) =>
        /\ last.rc = "CC_ERROR"
        /\ logger = NULL
        /\ debug_init = FALSE

\* C7: over any sequence of debug_setup and debug_teardown calls, no target
\* is closed twice, the only target that may be open is the logger's (so at
\* most one is open and a replaced one is not leaked), a debug_setup that
\* finds a target closes exactly that one and does not fail for it, and after
\* a fully successful debug_setup the target is present and open, the level
\* is the requested one and the init flag is true.
C7_TargetReplacedAndClosedOnce ==
    /\ \A h \in 1..MaxTargets : closed[h] <= 1
    /\ OpenTargets \subseteq {logger}
    /\ logger # NULL => logger \in OpenTargets
    /\ (last.op = "setup" /\ last.logger0 # NULL) =>
          /\ destroys = <<last.logger0>>
          /\ closed[last.logger0] = 1
    /\ (last.op = "setup" /\ last.arg.open /\ last.arg.segv /\ last.arg.ttin) =>
          /\ last.rc = "CC_OK"
          /\ logger \in OpenTargets
          /\ logger # last.logger0
          /\ level = last.lvl
          /\ debug_init = TRUE

\* A fully successful debug_setup that replaced the target of an earlier one.
C7_Witness ==
    /\ last.op = "setup"
    /\ last.rc = "CC_OK"
    /\ last.logger0 # NULL
    /\ last.init0 = TRUE
    /\ opened >= 2

\* C8: debug_teardown completes from every state, closes the target when
\* there is one and never an absent one, and leaves the target absent and
\* the init flag false; a debug_teardown right after a debug_teardown closes
\* nothing and leaves the logger as it was.
C8_TeardownIdempotent ==
    /\ [](last.op = "teardown" =>
            /\ logger = NULL
            /\ debug_init = FALSE
            /\ level = last.level0
            /\ destroys = IF last.logger0 = NULL THEN <<>> ELSE <<last.logger0>>)
    /\ [][(last.op = "teardown" /\ last'.op = "teardown") =>
            /\ logger' = logger
            /\ level' = level
            /\ debug_init' = debug_init
            /\ closed' = closed
            /\ destroys' = <<>>]_vars

\* A debug_teardown on a logger that has neither a target nor the init flag,
\* after a target was opened and closed.
C8_Witness ==
    /\ last.op = "teardown"
    /\ last.logger0 = NULL
    /\ last.init0 = FALSE
    /\ opened >= 1
    /\ closed[1] = 1
    /\ destroys = <<>>

\* C9: a _log call that passes the filter with a severity in ALWAYS..VVERB
\* makes one write; any _log call that returns after passing the filter made
\* exactly one write, to the logger's target, of 1 to LOG_MAX_LEN bytes, and
\* stored to no index of the record buffer at or beyond LOG_MAX_LEN; a call
\* that did not write made no write at all.
C9_LogWriteBounded ==
    last.op = "log" =>
        /\ (last.logger0 # NULL /\ last.lvl <= last.level0 /\ last.lvl \in 0..7)
              => last.rc = "written"
        /\ last.rc = "written" =>
              /\ last.logger0 # NULL
              /\ last.lvl <= last.level0
              /\ Emitted
              /\ writes[1].len = Len(writes[1].buf)
              /\ writes[1].len >= 1
              /\ writes[1].len <= LOG_MAX_LEN
              /\ maxidx < LOG_MAX_LEN
        /\ last.rc # "written" => Suppressed

\* A _log call whose message is longer than the buffer: the record fills it.
C9_Witness ==
    /\ last.op = "log"
    /\ last.rc = "written"
    /\ Len(last.arg.msg) > LOG_MAX_LEN
    /\ writes[1].len = LOG_MAX_LEN
    /\ maxidx = LOG_MAX_LEN - 1

\* C10: every record _log writes (at a severity in ALWAYS..VVERB) ends with a
\* newline and holds no other newline, whatever the message body.
C10_OneTrailingNewline ==
    (last.op = "log" /\ last.rc = "written" /\ last.lvl \in 0..7) =>
        LET b == writes[1].buf
        IN  /\ b[Len(b)] = NL
            /\ \A i \in 1..(Len(b) - 1) : b[i] # NL

-----------------------------------------------------------------------------
(* The output of _log_hexdump, read back as rows.                          *)

IsDump == last.op = "hexdump" /\ last.rc = "written"

Dump == writes[1].buf

NlPositions(b) == {i \in 1..Len(b) : b[i] = NL}

\* The rows that were rendered completely, newline included.
RowCount(b) == Cardinality(NlPositions(b))

\* Where the k-th newline of b is (k >= 1); 0 for k = 0.
NthNl(b, k) ==
    IF k = 0 THEN 0
    ELSE CHOOSE p \in NlPositions(b) :
            Cardinality({q \in NlPositions(b) : q <= p}) = k

\* The k-th complete row of b, newline included (k >= 1).
Row(b, k) == SubSeq(b, NthNl(b, k - 1) + 1, NthNl(b, k))

\* The ASCII gutter of a complete row: what lies between the '|' at column
\* 62 and the '|' before the newline.
Gutter(row) == SubSeq(row, 63, Len(row) - 2)

RowsNeeded(n) == (n + 15) \div 16

\* The input bytes (1-based positions) that the last row carries.
LastRowBytes(n) == IF n % 16 = 0 THEN 16 ELSE n % 16

\* The whole dump of n bytes fits the output buffer: 64 characters a row and
\* one more for each byte, in at most size - 1 characters.
DumpFits(n) == 64 * RowsNeeded(n) + n <= HexBufLen - 1

\* C11 as stated: for every input length a dump has ceil(length / 16) rows,
\* and the gutter of the last row holds length mod 16 characters (16 when
\* that is 0), none of them a space.
C11_AsStated ==
    (IsDump /\ last.arg.datalen >= 0) =>
        LET n == last.arg.datalen
        IN  /\ RowCount(Dump) = RowsNeeded(n)
            /\ n > 0 =>
                  LET g == Gutter(Row(Dump, RowsNeeded(n)))
                  IN  /\ Len(g) = LastRowBytes(n)
                      /\ \A i \in 1..Len(g) : g[i] # SP

\* C11, amended: for every input length >= 0 whose whole dump fits the
\* output buffer, the dump has ceil(length / 16) rows, and the gutter of the
\* last row, between its two '|', holds length mod 16 characters (16 when
\* that is 0), one for each input byte of the row: the byte itself or '.',
\* and so a space exactly where the input byte is a space.
C11_RowsAndLastGutter ==
    (IsDump /\ last.arg.datalen >= 0 /\ DumpFits(last.arg.datalen)) =>
        LET n == last.arg.datalen
            rows == RowsNeeded(n)
        IN  /\ RowCount(Dump) = rows
            /\ Len(Dump) = 64 * rows + n
            /\ n > 0 =>
                  LET row == Row(Dump, rows)
                      g == Gutter(row)
                      first == 16 * (rows - 1)
                  IN  /\ row[62] = BAR
                      /\ row[Len(row) - 1] = BAR
                      /\ Len(g) = LastRowBytes(n)
                      /\ \A i \in 1..Len(g) :
                            /\ g[i] \in {last.arg.data[first + i], DOT}
                            /\ g[i] = SP <=> last.arg.data[first + i] = SP

\* A dump of 17 bytes: two rows, the last with one character in its gutter.
C11_Witness ==
    /\ IsDump
    /\ last.arg.datalen = 17
    /\ last.arg.data[17] = 65
    /\ RowCount(Dump) = 2
    /\ Gutter(Row(Dump, 2)) = <<65>>

\* C12: a _log_hexdump call that passes the filter with a length >= 0, short
\* or too long for the output buffer, stores to no index at or beyond the
\* end of the buffer and makes exactly one write to the target, of what it
\* has accumulated, at most the capacity minus one.
C12_DumpBoundedOneWrite ==
    (last.op = "hexdump" /\ last.arg.datalen >= 0) =>
        /\ last.rc = IF HexSkip(last.logger0, last.level0, last.lvl)
                     THEN "skipped" ELSE "written"
        /\ last.rc = "written" =>
              /\ Emitted
              /\ writes[1].len = Len(writes[1].buf)
              /\ writes[1].len <= HexBufLen - 1
              /\ maxidx < HexBufLen
              /\ writes[1].len = Min(64 * RowsNeeded(last.arg.datalen)
                                        + last.arg.datalen, HexBufLen - 1)
        /\ last.rc = "skipped" => Suppressed

\* A dump of 48 bytes, which needs three full rows: the write is the first
\* capacity - 1 characters, the third row cut short.
C12_Witness ==
    /\ IsDump
    /\ last.arg.datalen = 48
    /\ writes[1].len = HexBufLen - 1
    /\ maxidx = HexBufLen - 1
    /\ RowCount(Dump) = 2

\* How many times a line occurs on stderr in the last operation.
Count(lines, msg) == Cardinality({i \in 1..Len(lines) : lines[i] = msg})

\* C13: debug_assert first writes exactly one diagnostic line to stderr,
\* whatever the logger's state; with panic nonzero it then makes one
\* stack-trace dump with skip 1 and aborts, and nothing runs afterwards;
\* with panic zero it makes no dump, returns, and leaves target, level and
\* initialized flag as they were.
C13_AssertLineThenPanic ==
    /\ [](last.op = "assert" =>
            /\ Len(errlog) >= 1
            /\ errlog[1] = AssertMsg
            /\ Count(errlog, AssertMsg) = 1
            /\ LoggerUntouched
            /\ IF last.arg.panic # 0
               THEN /\ Count(errlog, "printing stracktrace") = 1
                    /\ last.arg.symOk =>
                          /\ Len(frames) = Max(0, last.arg.size - 2)
                          /\ frames # <<>> => frames[1].i = 2
                    /\ proc = "aborted"
               ELSE /\ errlog = <<AssertMsg>>
                    /\ frames = <<>>
                    /\ proc = "running"
                    /\ pending = {})
    /\ [][proc # "aborted"]_vars

\* A panicking assertion (panic = 2) with a live logger: the process is
\* aborted after a dump that skipped two frames of five.
C13_Witness ==
    /\ last.op = "assert"
    /\ last.arg.panic = 2
    /\ last.logger0 # NULL
    /\ proc = "aborted"
    /\ errlog = <<AssertMsg, "printing stracktrace">>
    /\ Len(frames) = 3
    /\ frames[1] = [j |-> 0, i |-> 2]

\* C14: whenever the rotate signal is delivered to the installed rotate
\* handler, the one reopen it requests is of the logger's current target,
\* which is present and open, and target, level and initialized flag are
\* unchanged.
C14_ReopenOnPresentTarget ==
    last.op = "rotate" =>
        /\ last.arg.reopen = last.logger0
        /\ last.arg.reopen # NULL
        /\ last.arg.reopen \in OpenTargets
        /\ LoggerUntouched

\* Where hex column c (0-based) starts in a row: after the offset and its
\* two spaces, three characters a column, one more past the eighth.
ColPos(c) == 11 + 3 * c + (IF c >= 8 THEN 1 ELSE 0)

\* C15: every completely rendered row of a dump has one layout, whether it
\* carries 16 bytes or fewer: row k (0-based) starts with 16 * k as 8 hex
\* digits and two spaces, each of the 16 hex columns holds the byte's two
\* digits or two spaces and is followed by a space, with one more space
\* after the eighth column, and the opening '|' of the gutter is at column
\* 62, the closing one before the newline.
C15_RowLayout ==
    IsDump =>
        \A k \in 1..RowCount(Dump) :
            LET row == Row(Dump, k)
                n == Len(row) - 64
            IN  /\ n \in 1..16
                /\ SubSeq(row, 1, 10) = HexN(16 * (k - 1), 8) \o <<SP, SP>>
                /\ \A c \in 0..15 :
                      /\ row[ColPos(c) + 2] = SP
                      /\ c >= n => SubSeq(row, ColPos(c), ColPos(c) + 1) = <<SP, SP>>
                      /\ (c < n /\ last.arg.datalen >= 0) =>
                            SubSeq(row, ColPos(c), ColPos(c) + 1)
                               = HexN(last.arg.data[16 * (k - 1) + c + 1], 2)
                /\ row[35] = SP
                /\ SubSeq(row, 60, 62) = <<SP, SP, BAR>>
                /\ row[Len(row) - 1] = BAR
                /\ \A i \in 1..(Len(row) - 1) : row[i] # NL

\* A dump of 17 bytes: a full row and a row of one byte, the gutter opening
\* at column 62 in both, the second row starting with offset 00000010.
C15_Witness ==
    /\ IsDump
    /\ last.arg.datalen = 17
    /\ RowCount(Dump) = 2
    /\ Len(Row(Dump, 1)) = 80
    /\ Len(Row(Dump, 2)) = 65
    /\ Row(Dump, 1)[62] = BAR
    /\ Row(Dump, 2)[62] = BAR
    /\ SubSeq(Row(Dump, 2), 1, 8) = <<48, 48, 48, 48, 48, 48, 49, 48>>

\* The last operation made a stack-trace dump: the crash handler with skip
\* 2 (line 89), a panicking assertion with skip 1 (line 81).
IsDumpOp ==
    \/ last.op = "crash handler"
    \/ last.op = "assert" /\ last.arg.panic # 0

DumpSkip == IF last.op = "crash handler" THEN 2 ELSE 1

\* C16: a stack-trace dump of n captured return addresses, n never above
\* 64, with skip count s writes max(0, n - (s + 1)) frame lines, numbered
\* from 0 in capture order, line j describing captured frame s + 1 + j; when
\* the symbols cannot be resolved it writes a notice and no frame line.
C16_FrameLines ==
    IsDumpOp =>
        LET n == last.arg.size
            s == DumpSkip
        IN  /\ n \in 0..64
            /\ IF last.arg.symOk
               THEN /\ Len(frames) = Max(0, n - (s + 1))
                    /\ \A k \in 1..Len(frames) :
                          /\ frames[k].j = k - 1
                          /\ frames[k].i = s + 1 + frames[k].j
                          /\ frames[k].i < n
                    /\ Count(errlog, "Could not print backtrace; no symbols") = 0
               ELSE /\ frames = <<>>
                    /\ Count(errlog, "Could not print backtrace; no symbols") = 1

\* The crash handler's dump of a stack deeper than 64: 64 addresses are
\* captured and 61 frame lines written, the last for captured frame 63.
C16_Witness ==
    /\ last.op = "crash handler"
    /\ last.arg.size = 64
    /\ last.arg.symOk
    /\ Len(frames) = 61
    /\ frames[1] = [j |-> 0, i |-> 3]
    /\ frames[61] = [j |-> 60, i |-> 63]

\* C17: a _log or _log_hexdump call that comes back, whether it was
\* filtered out, found no logger or wrote its record, leaves target, level,
\* initialized flag and signal handlers as they were, and errno on return
\* is errno on entry, whatever formatting and the write set in between.
C17_WritersKeepStateAndErrno ==
    (IsWriter /\ Returned) =>
        /\ LoggerUntouched
        /\ errno = last.errno0
        /\ sigact = last.sig0
        /\ proc = "running"
        /\ pending = {}

\* A record written while errno was ENOENT on entry and the write set it
\* to EIO: errno is ENOENT on return.
C17_Witness ==
    /\ IsWriter
    /\ last.rc = "written"
    /\ last.arg.mid = "EIO"
    /\ last.errno0 = "ENOENT"
    /\ errno = "ENOENT"

\* C18: for every datalen, negative ones included, _log_hexdump consumes at
\* most max(0, datalen) input bytes.
C18_ReadsWithinData ==
    last.op = "hexdump" => nread <= Max(0, last.arg.datalen)

\* C19: whenever _log gets past the level filter, the level that indexes
\* level_str is within 0..7.
C19_LabelIndexInTable ==
    (last.op = "log" /\ last.rc # "skipped") => last.lvl \in 0..7

====
